---- MODULE Spec2Model ----
(***************************************************************************)
(* Model of OnMapPlotter.py: the table reader readTxtTable, the line       *)
(* registry and renderer PlotManager, and the controller PlotApp.          *)
(*                                                                         *)
(* Text is a sequence of one-character strings.  The Cyrillic literal of   *)
(* the source, the label prefix written in lines 45, 93, 257 and 277, is   *)
(* spelled "Grafik:" here.                                                 *)
(***************************************************************************)
EXTENDS Integers, Sequences, FiniteSets, TLC

\* ------------------------------------------------------------------------
\* Bounds of the model
\* ------------------------------------------------------------------------
\* longest text file handed to readTxtTable on its own
MaxLen == 4
\* add_line is not called any more once current_id has reached MaxId
MaxId == 2

\* ------------------------------------------------------------------------
\* Characters and Python string helpers
\* ------------------------------------------------------------------------
DigitSeq == <<"0", "1", "2", "3", "4", "5", "6", "7", "8", "9">>

Digits == {DigitSeq[i] : i \in 1..10}

\* the characters of line 20: '-.1234567890'
NumericChars == Digits \cup {"-", "."}

\* the characters of line 16: ' \t'
BlankChars == {" ", "\t"}

\* str.isalpha() on the letters that occur in the inputs
AlphaChars == {"a", "b", "c", "e", "m", "n", "o", "r", "t", "x"}

isalpha(c) == c \in AlphaChars

DigitVal(c) == (CHOOSE i \in 1..10 : DigitSeq[i] = c) - 1

RECURSIVE lstrip(_, _)
lstrip(s, chars) ==
    IF s # <<>> /\ Head(s) \in chars THEN lstrip(Tail(s), chars) ELSE s

RECURSIVE rstrip(_, _)
rstrip(s, chars) ==
    IF s # <<>> /\ s[Len(s)] \in chars
    THEN rstrip(SubSeq(s, 1, Len(s) - 1), chars)
    ELSE s

strip(s, chars) == rstrip(lstrip(s, chars), chars)

\* file.readlines(): every line keeps its terminator; the last line has
\* none when the file does not end with a newline
RECURSIVE readlines(_)
readlines(s) ==
    IF s = <<>> THEN <<>>
    ELSE IF \E i \in 1..Len(s) : s[i] = "\n"
         THEN LET i == CHOOSE k \in 1..Len(s) :
                          s[k] = "\n" /\ \A j \in 1..(k - 1) : s[j] # "\n"
              IN <<SubSeq(s, 1, i)>> \o readlines(SubSeq(s, i + 1, Len(s)))
         ELSE <<s>>

\* ------------------------------------------------------------------------
\* float(cell) on text made of the characters '-.0123456789'
\* ------------------------------------------------------------------------
RECURSIVE Pow10(_)
Pow10(n) == IF n = 0 THEN 1 ELSE 10 * Pow10(n - 1)

RECURSIVE DigitsToInt(_)
DigitsToInt(s) ==
    IF s = <<>> THEN 0
    ELSE 10 * DigitsToInt(SubSeq(s, 1, Len(s) - 1)) + DigitVal(s[Len(s)])

\* float() accepts an optional sign, then digits with at most one point and
\* at least one digit; anything else raises ValueError
IsFloat(cell) ==
    LET body == IF cell # <<>> /\ Head(cell) = "-" THEN Tail(cell) ELSE cell
        points == {i \in 1..Len(body) : body[i] = "."}
    IN /\ \A i \in 1..Len(body) : body[i] \in Digits \cup {"."}
       /\ Cardinality(points) <= 1
       /\ \E i \in 1..Len(body) : body[i] \in Digits

\* a cell of a row: a number num/den (den a power of ten, lowest terms in
\* the decimal sense) or a string
NumCell(n, d) == [kind |-> "num", num |-> n, den |-> d, str |-> <<>>]

StrCell(s) == [kind |-> "str", num |-> 0, den |-> 1, str |-> s]

\* the value of float(cell) for a cell IsFloat accepts
float(cell) ==
    LET neg == Head(cell) = "-"
        body == IF neg THEN Tail(cell) ELSE cell
        p == IF \E i \in 1..Len(body) : body[i] = "."
             THEN CHOOSE i \in 1..Len(body) : body[i] = "."
             ELSE Len(body) + 1
        ipart == SubSeq(body, 1, p - 1)
        fpart == rstrip(SubSeq(body, p + 1, Len(body)), {"0"})
        mag == DigitsToInt(ipart \o fpart)
    IN NumCell(IF neg THEN 0 - mag ELSE mag, Pow10(Len(fpart)))

\* ------------------------------------------------------------------------
\* readTxtTable
\* ------------------------------------------------------------------------
\* line 13: the lines that produce no row
SkipLine(line) == line[1] = "#" \/ lstrip(line, {" "}) = <<"\n">>

\* lines 14-26: the scan of one line from position i on, cell being the
\* token collected so far and cells the row so far
RECURSIVE ScanLine(_, _, _, _)
ScanLine(line, i, cell, cells) ==
    IF i > Len(line) THEN [ok |-> TRUE, cells |-> cells]
    ELSE IF line[i] \in BlankChars
         THEN IF cell # <<>>
              THEN IF IsFloat(cell)
                   THEN ScanLine(line, i + 1, <<>>, Append(cells, float(cell)))
                   ELSE [ok |-> FALSE, cells |-> cells]
              ELSE ScanLine(line, i + 1, <<>>, cells)
         ELSE IF line[i] \in NumericChars
              THEN ScanLine(line, i + 1, Append(cell, line[i]), cells)
              ELSE IF isalpha(line[i])
                   THEN [ok |-> TRUE,
                         cells |-> Append(cells,
                            StrCell(rstrip(strip(SubSeq(line, i, Len(line)),
                                                 {" "}), {"\n"})))]
                   ELSE ScanLine(line, i + 1, cell, cells)

\* lines 12-28 over the lines still to read
RECURSIVE ReadLines(_, _)
ReadLines(lns, rws) ==
    IF lns = <<>> THEN [ok |-> TRUE, rows |-> rws]
    ELSE IF SkipLine(Head(lns)) THEN ReadLines(Tail(lns), rws)
         ELSE LET r == ScanLine(Head(lns), 1, <<>>, <<>>)
              IN IF r.ok THEN ReadLines(Tail(lns), Append(rws, r.cells))
                 ELSE [ok |-> FALSE, rows |-> <<>>]

\* ok = FALSE stands for the ValueError that float() raises
readTxtTable(text) == ReadLines(readlines(text), <<>>)

\* ------------------------------------------------------------------------
\* Inputs of the reader
\* ------------------------------------------------------------------------
ReaderAlphabet == {"1", ".", "-", " ", "\t", "\n", "#", "a"}

SampleTable ==
    <<"1", ".", "0", " ", "2", ".", "0", "\n",
      "#", " ", "c", "o", "m", "m", "e", "n", "t", "\n",
      "\n",
      "3", ".", "0", " ", "4", ".", "0", " ", "e", "x", "t", "r", "a", "\n">>

ReaderInputs ==
    UNION {[1..n -> ReaderAlphabet] : n \in 0..MaxLen} \cup {SampleTable}

VARIABLES file, pc, rows, raised

rvars == <<file, pc, rows, raised>>

ReaderInit ==
    /\ file \in ReaderInputs
    /\ pc = "start"
    /\ rows = <<>>
    /\ raised = FALSE

\* one call of readTxtTable on the chosen file
ReadTable ==
    /\ pc = "start"
    /\ LET r == readTxtTable(file)
       IN /\ rows' = r.rows
          /\ raised' = ~r.ok
    /\ pc' = "done"
    /\ file' = file

\* ------------------------------------------------------------------------
\* Values of the registry
\* ------------------------------------------------------------------------
\* a piece of text that ends in a formatted integer, f'{prefix}{n}', or a
\* plain text (num = -1)
FmtId(prefix, n) == [text |-> prefix, num |-> n]

Text(t) == [text |-> t, num |-> -1]

\* int(selection.split(':')[-1]) of line 290
IntAfterColon(s) == s.num

SettingsKeys ==
    {"line_width", "line_color", "line_style", "marker_size", "marker_color",
     "label"}

\* the dict built in lines 39-45; current_id is 0 when the label is formatted
DefaultSettings(cid) ==
    [line_width |-> 2, line_color |-> "blue", line_style |-> ":",
     marker_size |-> 0, marker_color |-> "red",
     label |-> FmtId("Grafik:", cid)]

\* address of the dict self.default_settings in the heap of dict objects
DefaultAddr == 0

\* the settings argument of add_line: None, or a reference to a dict
NoSettings == [given |-> FALSE, ref |-> DefaultAddr]

Ref(a) == [given |-> TRUE, ref |-> a]

HasLine(ls, id) == \E i \in 1..Len(ls) : ls[i].id = id

LineAt(ls, id) == ls[CHOOSE i \in 1..Len(ls) : ls[i].id = id]

\* the dict objects that stay alive: default_settings, the caller's own
\* dicts (addresses below 0) and every dict a line refers to
Live(hp, ls) ==
    {a \in DOMAIN hp : a <= DefaultAddr \/ \E i \in 1..Len(ls) : ls[i].settings = a}

Collect(hp, ls) == [a \in Live(hp, ls) |-> hp[a]]

FreshAddr(hp) ==
    1 + (CHOOSE m \in DOMAIN hp \cup {DefaultAddr} :
             \A a \in DOMAIN hp \cup {DefaultAddr} : a <= m)

\* ------------------------------------------------------------------------
\* PlotManager
\* ------------------------------------------------------------------------
\* add_line taking the id from the number of live lines, not from a counter
add_line_by_count(ls, hp, cid, x, y, settings) ==
    LET addr == IF settings.given THEN settings.ref ELSE FreshAddr(hp)
        hp1 == IF settings.given THEN hp
               ELSE [a \in DOMAIN hp \cup {addr} |->
                        IF a = addr THEN hp[DefaultAddr] ELSE hp[a]]
        line_id == Len(ls) + 1
        ls1 == IF ~HasLine(ls, line_id)
               THEN Append(ls, [id |-> line_id, data |-> <<x, y>>,
                                settings |-> addr])
               ELSE ls
    IN [lines |-> ls1, heap |-> Collect(hp1, ls1), current_id |-> cid + 1,
        ret |-> line_id]

\* lines 51-61.  ls is self.lines in insertion order, hp the dict objects,
\* cid self.current_id
add_line(ls, hp, cid, x, y, settings) ==
    LET addr == IF settings.given THEN settings.ref ELSE FreshAddr(hp)
        hp1 == IF settings.given THEN hp
               ELSE [a \in DOMAIN hp \cup {addr} |->
                        IF a = addr THEN hp[DefaultAddr] ELSE hp[a]]
        line_id == cid + 1
        ls1 == IF ~HasLine(ls, line_id)
               THEN Append(ls, [id |-> line_id, data |-> <<x, y>>,
                                settings |-> addr])
               ELSE ls
    IN [lines |-> ls1, heap |-> Collect(hp1, ls1), current_id |-> line_id,
        ret |-> line_id]

\* remove_line dropping the newest entry (dict.popitem) instead of line_id
remove_line_popitem(ls, hp, line_id) ==
    IF HasLine(ls, line_id)
    THEN LET ls1 == SubSeq(ls, 1, Len(ls) - 1)
         IN [lines |-> ls1, heap |-> Collect(hp, ls1), ret |-> TRUE]
    ELSE [lines |-> ls, heap |-> hp, ret |-> FALSE]

\* lines 63-68
remove_line(ls, hp, line_id) ==
    IF HasLine(ls, line_id)
    THEN LET ls1 == SelectSeq(ls, LAMBDA l : l.id # line_id)
         IN [lines |-> ls1, heap |-> Collect(hp, ls1), ret |-> TRUE]
    ELSE [lines |-> ls, heap |-> hp, ret |-> FALSE]

\* dict.update(partial) of line 73
DictUpdate(d, partial) ==
    [k \in DOMAIN d \cup DOMAIN partial |->
        IF k \in DOMAIN partial THEN partial[k] ELSE d[k]]

\* lines 70-75
update_line_settings(ls, hp, line_id, partial) ==
    IF HasLine(ls, line_id)
    THEN LET a == LineAt(ls, line_id).settings
         IN [heap |-> [hp EXCEPT ![a] = DictUpdate(hp[a], partial)],
             ret |-> TRUE]
    ELSE [heap |-> hp, ret |-> FALSE]

\* the state of an Axes right after axes.clear()
ClearAxes ==
    [lines |-> <<>>, images |-> <<>>, xlabel |-> "", ylabel |-> "",
     xlim |-> <<0, 1>>, ylim |-> <<0, 1>>, grid |-> FALSE,
     legend |-> <<>>, has_legend |-> FALSE]

\* lines 35 and 47-49
InitAxes ==
    [ClearAxes EXCEPT !.xlabel = "Shirota", !.ylabel = "Dolgota",
                      !.grid = TRUE]

\* lines 85-93: the artist that axes.plot adds for one line
PlotArtist(l, hp) ==
    LET st == hp[l.settings]
    IN [x |-> l.data[1], y |-> l.data[2],
        linewidth |-> st.line_width, color |-> st.line_color,
        linestyle |-> st.line_style,
        marker |-> IF st.marker_size > 0 THEN "o" ELSE "None",
        markersize |-> st.marker_size,
        markerfacecolor |-> st.marker_color,
        label |-> FmtId("Grafik:", l.id)]

\* redraw_plot without the axes.clear() of line 79
redraw_plot_no_clear(ax, ls, hp) ==
    LET plotted == [i \in 1..Len(ls) |-> PlotArtist(ls[i], hp)]
    IN [ax EXCEPT !.lines = ax.lines \o plotted,
                  !.xlabel = "Shirota", !.ylabel = "Dolgota",
                  !.xlim = <<-180, 180>>, !.ylim = <<-80, 80>>,
                  !.legend = [i \in 1..Len(ax.lines \o plotted) |->
                                 (ax.lines \o plotted)[i].label],
                  !.has_legend = TRUE]

\* lines 77-99
redraw_plot(ax, ls, hp) ==
    LET cleared == ClearAxes
        plotted == [i \in 1..Len(ls) |-> PlotArtist(ls[i], hp)]
    IN [cleared EXCEPT !.lines = cleared.lines \o plotted,
                       !.xlabel = "Shirota", !.ylabel = "Dolgota",
                       !.xlim = <<-180, 180>>, !.ylim = <<-80, 80>>,
                       !.legend = [i \in 1..Len(ls) |-> plotted[i].label],
                       !.has_legend = TRUE]

\* line 37
DefaultMap == "maps\\ortophotoplan_earth_80.jpg"

\* the image files imread can read
ReadableImages == {DefaultMap, "good.png"}

\* the paths the file dialog of load_map_image can return
ImagePaths == {"good.png", "missing.png"}

\* no path: redraw_map() is called without argument
NoPath == ""

\* lines 101-108; messagebox lists the dialogs shown
redraw_map(ax, bg, path) ==
    LET bg1 == IF path # NoPath THEN path ELSE bg
    IN IF bg1 \in ReadableImages
       THEN [axes |-> [ax EXCEPT !.images = Append(ax.images, bg1)],
             background_image |-> bg1, messagebox |-> <<>>]
       ELSE [axes |-> ax, background_image |-> bg1,
             messagebox |-> <<"redraw_map:108">>]

\* lines 324-328
update_plot(ax, ls, hp, bg) ==
    LET m == redraw_map(redraw_plot(ax, ls, hp), bg, NoPath)
    IN [axes |-> m.axes, messagebox |-> m.messagebox]

\* ------------------------------------------------------------------------
\* State of PlotManager and PlotApp
\* ------------------------------------------------------------------------
VARIABLES
    lines,            \* self.lines in insertion order: [id, data, settings],
                      \* settings being the address of a dict in heap
    heap,             \* the dict objects: address -> settings
    current_id,       \* self.current_id
    background_image, \* self.background_image
    axes,             \* what self.axes holds drawn
    active_line_ids,  \* PlotApp.active_line_ids
    current_line_id,  \* PlotApp.current_line_id, 0 standing for None
    widgets,          \* the values of the six settings widgets
    line_selector,    \* the combobox: its values and its text
    messagebox,       \* the error dialogs shown by the last event
    event,            \* the last call or UI event handled
    ret,              \* the value the last PlotManager call returned
    issued            \* the ids add_line has returned so far

pvars == <<lines, heap, current_id, background_image, axes>>

avars == <<active_line_ids, current_line_id, widgets, line_selector>>

evars == <<messagebox, event, ret, issued>>

vars == <<rvars, pvars, avars, evars>>

\* the reader is not running
ReaderIdle ==
    /\ file = <<>>
    /\ pc = "idle"
    /\ rows = <<>>
    /\ raised = FALSE

\* lines 221-228
set_default_settings ==
    [line_label |-> Text(""), line_width |-> 2, line_color |-> "blue",
     line_style |-> ":", marker_size |-> 0, marker_color |-> "red"]

\* lines 126-127 and 169
AppFieldsInit ==
    /\ active_line_ids = <<>>
    /\ current_line_id = 0
    /\ widgets = set_default_settings
    /\ line_selector = [values |-> <<>>, text |-> Text("")]

\* ------------------------------------------------------------------------
\* Calls on a PlotManager alone
\* ------------------------------------------------------------------------
\* dicts the caller owns and may hand to add_line as settings
CallerDicts == {-1}

CallerSettings ==
    [line_width |-> 3, line_color |-> "green", line_style |-> "-",
     marker_size |-> 4, marker_color |-> "black", label |-> Text("A")]

\* the (x_data, y_data) the caller may pass
CallerData == {<<<<>>, <<>>>>, <<<<NumCell(1, 1)>>, <<NumCell(2, 1)>>>>}

EmptyDict == [k \in {} |-> 0]

\* the partial settings the caller may pass to update_line_settings
Partials ==
    {EmptyDict,
     [k \in {"label"} |-> Text("L")],
     [k \in {"line_width", "line_color"} |->
         IF k = "line_width" THEN 5 ELSE "red"]}

Ids == 1..MaxId

\* lines 32-49, and the caller's dicts
ManagerInit ==
    /\ ReaderIdle
    /\ lines = <<>>
    /\ heap = [a \in {DefaultAddr} \cup CallerDicts |->
                 IF a = DefaultAddr THEN DefaultSettings(0)
                 ELSE CallerSettings]
    /\ current_id = 0
    /\ background_image = DefaultMap
    /\ axes = InitAxes
    /\ AppFieldsInit
    /\ messagebox = <<>>
    /\ event = "__init__"
    /\ ret = 0
    /\ issued = {}

AddLine(x, y, settings) ==
    /\ event' = "add_line"
    /\ current_id < MaxId
    /\ LET r == add_line(lines, heap, current_id, x, y, settings)
       IN /\ lines' = r.lines
          /\ heap' = r.heap
          /\ current_id' = r.current_id
          /\ ret' = r.ret
          /\ issued' = issued \cup {r.ret}
    /\ UNCHANGED <<background_image, axes, messagebox, avars, rvars>>

RemoveLine(line_id) ==
    /\ event' = "remove_line"
    /\ LET r == remove_line(lines, heap, line_id)
       IN /\ lines' = r.lines
          /\ heap' = r.heap
          /\ ret' = r.ret
    /\ UNCHANGED <<current_id, background_image, axes, messagebox, issued,
                   avars, rvars>>

UpdateLineSettings(line_id, partial) ==
    /\ event' = "update_line_settings"
    /\ LET r == update_line_settings(lines, heap, line_id, partial)
       IN /\ heap' = r.heap
          /\ ret' = r.ret
    /\ UNCHANGED <<lines, current_id, background_image, axes, messagebox,
                   issued, avars, rvars>>

ManagerNext ==
    \/ \E d \in CallerData,
          s \in {NoSettings} \cup {Ref(a) : a \in CallerDicts} :
          AddLine(d[1], d[2], s)
    \/ \E i \in Ids : RemoveLine(i)
    \/ \E i \in Ids, p \in Partials : UpdateLineSettings(i, p)

ManagerSpec == ManagerInit /\ [][ManagerNext]_vars

\* ------------------------------------------------------------------------
\* The table reader on its own
\* ------------------------------------------------------------------------
ReaderSpecInit ==
    /\ ReaderInit
    /\ lines = <<>>
    /\ heap = [a \in {DefaultAddr} |-> DefaultSettings(0)]
    /\ current_id = 0
    /\ background_image = DefaultMap
    /\ axes = InitAxes
    /\ AppFieldsInit
    /\ messagebox = <<>>
    /\ event = "__init__"
    /\ ret = 0
    /\ issued = {}

ReaderNext == ReadTable /\ UNCHANGED <<pvars, avars, evars>>

ReaderSpec == ReaderSpecInit /\ [][ReaderNext]_vars

\* ------------------------------------------------------------------------
\* PlotApp
\* ------------------------------------------------------------------------
\* lines 286-301: sel is line_selector.get(); the result is the new
\* current_line_id and the new widget values
select_line(sel, ls, hp, cur, w) ==
    IF sel # Text("")
    THEN LET line_id == IntAfterColon(sel)
             st == hp[LineAt(ls, line_id).settings]
         IN [current_line_id |-> line_id,
             widgets |-> [line_label |-> st.label,
                          line_width |-> st.line_width,
                          line_color |-> st.line_color,
                          line_style |-> st.line_style,
                          marker_size |-> st.marker_size,
                          marker_color |-> st.marker_color]]
    ELSE [current_line_id |-> cur, widgets |-> w]

\* lines 275-284
update_line_selector(ids, ls, hp, cur, w) ==
    LET values == [i \in 1..Len(ids) |-> FmtId("Grafik:", ids[i])]
    IN IF values # <<>>
       THEN LET sl == select_line(values[1], ls, hp, cur, w)
            IN [line_selector |-> [values |-> values, text |-> values[1]],
                current_line_id |-> sl.current_line_id,
                widgets |-> sl.widgets]
       ELSE [line_selector |-> [values |-> values, text |-> Text("")],
             current_line_id |-> 0,
             widgets |-> w]

\* lines 311-322
apply_settings(ls, hp, cur, w) ==
    IF cur # 0
    THEN update_line_settings(ls, hp, cur,
             [line_width |-> w.line_width, line_color |-> w.line_color,
              line_style |-> w.line_style, marker_size |-> w.marker_size,
              marker_color |-> w.marker_color, label |-> w.line_label]).heap
    ELSE hp

\* the unpacking passing over the rows of fewer than two cells
RECURSIVE unpack_rows_skip_short(_)
unpack_rows_skip_short(rws) ==
    IF rws = <<>> THEN [ok |-> TRUE, X |-> <<>>, Y |-> <<>>]
    ELSE LET rest == unpack_rows_skip_short(Tail(rws))
         IN IF Len(Head(rws)) >= 2
            THEN [ok |-> TRUE, X |-> <<Head(rws)[1]>> \o rest.X,
                  Y |-> <<Head(rws)[2]>> \o rest.Y]
            ELSE rest

\* lines 245-247: every row is unpacked as x, y, *_ and a row of fewer
\* than two cells raises ValueError (ok = FALSE)
RECURSIVE unpack_rows(_)
unpack_rows(rws) ==
    IF rws = <<>> THEN [ok |-> TRUE, X |-> <<>>, Y |-> <<>>]
    ELSE LET rest == unpack_rows(Tail(rws))
         IN IF Len(Head(rws)) >= 2 /\ rest.ok
            THEN [ok |-> TRUE, X |-> <<Head(rws)[1]>> \o rest.X,
                  Y |-> <<Head(rws)[2]>> \o rest.Y]
            ELSE [ok |-> FALSE, X |-> <<>>, Y |-> <<>>]

\* lines 241-247: open, readTxtTable and the unpacking of the rows
read_xy(f) ==
    IF ~f.exists THEN [ok |-> FALSE, X |-> <<>>, Y |-> <<>>]
    ELSE LET r == readTxtTable(f.text)
         IN IF r.ok THEN unpack_rows(r.rows)
            ELSE [ok |-> FALSE, X |-> <<>>, Y |-> <<>>]

\* the files the dialog of load_line_from_file can return
DataFiles ==
    {[name |-> "ok.txt", exists |-> TRUE,
      text |-> <<"1", " ", "2", " ", "\n">>],
     [name |-> "empty.txt", exists |-> TRUE, text |-> <<>>],
     [name |-> "plain.txt", exists |-> TRUE,
      text |-> <<"1", " ", "2", "\n">>],
     [name |-> "points.txt", exists |-> TRUE,
      text |-> <<"1", ".", "2", ".", "3", " ", "2", " ", "\n">>],
     [name |-> "dash.txt", exists |-> TRUE,
      text |-> <<"-", " ", "2", " ", "\n">>],
     [name |-> "minus.txt", exists |-> TRUE,
      text |-> <<"1", "-", "2", " ", "3", " ", "\n">>],
     [name |-> "absent.txt", exists |-> FALSE, text |-> <<>>]}

\* the values the user may give to a settings widget
WidgetChoices(w) ==
    CASE w = "line_label" -> {Text("L")}
      [] w = "line_width" -> {2, 5}
      [] w = "line_color" -> {"blue"}
      [] w = "line_style" -> {":"}
      [] w = "marker_size" -> {0}
      [] w = "marker_color" -> {"red"}

WidgetNames == DOMAIN set_default_settings

\* lines 114-139: the state once PlotApp is constructed
Init ==
    /\ ReaderIdle
    /\ lines = <<>>
    /\ heap = [a \in {DefaultAddr} |-> DefaultSettings(0)]
    /\ current_id = 0
    /\ background_image = DefaultMap
    /\ LET u == update_plot(InitAxes, <<>>, heap, DefaultMap)
           m == redraw_map(u.axes, DefaultMap, NoPath)
       IN /\ axes = m.axes
          /\ messagebox = u.messagebox \o m.messagebox
    /\ AppFieldsInit
    /\ event = "__init__"
    /\ ret = 0
    /\ issued = {}

\* lines 236-260, the dialog cancelled
LoadLineCancelled ==
    /\ event' = "load_line_from_file"
    /\ messagebox' = <<>>
    /\ UNCHANGED <<pvars, avars, ret, issued, rvars>>

\* lines 236-260, the dialog returning file f
LoadLineFromFile(f) ==
    LET xy == read_xy(f)
    IN /\ event' = "load_line_from_file"
       /\ UNCHANGED <<background_image, rvars>>
       /\ IF ~xy.ok
          THEN /\ messagebox' = <<"load_line_from_file:260">>
               /\ UNCHANGED <<lines, heap, current_id, axes, avars, ret, issued>>
          ELSE /\ current_id < MaxId
               /\ LET r == add_line(lines, heap, current_id, xy.X, xy.Y,
                                    NoSettings)
                      ids == Append(active_line_ids, r.ret)
                      us == update_line_selector(ids, r.lines, r.heap,
                                                 current_line_id, widgets)
                      u == update_plot(axes, r.lines, r.heap, background_image)
                      w == [us.widgets EXCEPT
                               !.line_label = FmtId(" Grafik:", r.ret)]
                  IN /\ lines' = r.lines
                     /\ current_id' = r.current_id
                     /\ ret' = r.ret
                     /\ issued' = issued \cup {r.ret}
                     /\ active_line_ids' = ids
                     /\ line_selector' = us.line_selector
                     /\ current_line_id' = us.current_line_id
                     /\ axes' = u.axes
                     /\ messagebox' = u.messagebox
                     /\ widgets' = w
                     /\ heap' = apply_settings(r.lines, r.heap,
                                               us.current_line_id, w)

\* lines 262-273; path = NoPath when the dialog is cancelled
LoadMapImage(path) ==
    /\ event' = "load_map_image"
    /\ IF path = NoPath
       THEN /\ messagebox' = <<>>
            /\ UNCHANGED <<background_image, axes>>
       ELSE LET m == redraw_map(axes, background_image, path)
                u == update_plot(m.axes, lines, heap, m.background_image)
            IN /\ background_image' = m.background_image
               /\ axes' = u.axes
               /\ messagebox' = m.messagebox \o u.messagebox
    /\ UNCHANGED <<lines, heap, current_id, avars, ret, issued, rvars>>

\* line 211: the user picks entry i of the line selector
LineSelected(i) ==
    /\ i \in 1..Len(line_selector.values)
    /\ event' = "line_selected"
    /\ LET sl == select_line(line_selector.values[i], lines, heap,
                             current_line_id, widgets)
           u == update_plot(axes, lines, heap, background_image)
       IN /\ line_selector' = [line_selector EXCEPT
                                  !.text = line_selector.values[i]]
          /\ current_line_id' = sl.current_line_id
          /\ widgets' = sl.widgets
          /\ axes' = u.axes
          /\ messagebox' = u.messagebox
    /\ UNCHANGED <<lines, heap, current_id, background_image,
                   active_line_ids, ret, issued, rvars>>

\* list.remove(x) of line 307: the first occurrence goes
ListRemove(l, x) ==
    LET i == CHOOSE k \in 1..Len(l) :
                 l[k] = x /\ \A j \in 1..(k - 1) : l[j] # x
    IN SubSeq(l, 1, i - 1) \o SubSeq(l, i + 1, Len(l))

\* lines 303-309
RemoveSelectedLine ==
    /\ event' = "remove_selected_line"
    /\ IF current_line_id # 0
       THEN LET r == remove_line(lines, heap, current_line_id)
                ids == ListRemove(active_line_ids, current_line_id)
                us == update_line_selector(ids, r.lines, r.heap,
                                           current_line_id, widgets)
                u == update_plot(axes, r.lines, r.heap, background_image)
            IN /\ lines' = r.lines
               /\ heap' = r.heap
               /\ ret' = r.ret
               /\ active_line_ids' = ids
               /\ line_selector' = us.line_selector
               /\ current_line_id' = us.current_line_id
               /\ widgets' = us.widgets
               /\ axes' = u.axes
               /\ messagebox' = u.messagebox
       ELSE /\ messagebox' = <<>>
            /\ UNCHANGED <<lines, heap, ret, avars, axes>>
    /\ UNCHANGED <<current_id, background_image, issued, rvars>>

\* lines 213-219 and 230-234: the user gives widget w the value v
OnSettingsChange(w, v) ==
    /\ event' = "on_settings_change"
    /\ LET w1 == [widgets EXCEPT ![w] = v]
       IN /\ widgets' = w1
          /\ IF current_line_id # 0
             THEN LET hp1 == apply_settings(lines, heap, current_line_id, w1)
                      u == update_plot(axes, lines, hp1, background_image)
                  IN /\ heap' = hp1
                     /\ axes' = u.axes
                     /\ messagebox' = u.messagebox
             ELSE /\ messagebox' = <<>>
                  /\ UNCHANGED <<heap, axes>>
    /\ UNCHANGED <<lines, current_id, background_image, active_line_ids,
                   current_line_id, line_selector, ret, issued, rvars>>

\* lines 324-328: a call of update_plot on its own
UpdatePlot ==
    /\ event' = "update_plot"
    /\ LET u == update_plot(axes, lines, heap, background_image)
       IN /\ axes' = u.axes
          /\ messagebox' = u.messagebox
    /\ UNCHANGED <<lines, heap, current_id, background_image, avars, ret,
                   issued, rvars>>

Next ==
    \/ LoadLineCancelled
    \/ \E f \in DataFiles : LoadLineFromFile(f)
    \/ \E p \in ImagePaths \cup {NoPath} : LoadMapImage(p)
    \/ \E i \in Ids : LineSelected(i)
    \/ RemoveSelectedLine
    \/ \E w \in WidgetNames : \E v \in WidgetChoices(w) : OnSettingsChange(w, v)
    \/ UpdatePlot

Spec == Init /\ [][Next]_vars

\* ------------------------------------------------------------------------
\* Properties of the registry (ManagerSpec)
\* ------------------------------------------------------------------------
AnyAddLine ==
    \E d \in CallerData, s \in {NoSettings} \cup {Ref(a) : a \in CallerDicts} :
        AddLine(d[1], d[2], s)

LiveIds(ls) == {ls[k].id : k \in 1..Len(ls)}

SettingsOf(ls, hp, id) == hp[LineAt(ls, id).settings]

\* C1: the id add_line returns is greater than every id it returned before
\* and than every live id, so a freed id never comes back, and the live
\* lines all have different ids.
C1_IdsStrictlyIncreasing ==
    [][AnyAddLine =>
          /\ \A i \in issued : ret' > i
          /\ \A i \in LiveIds(lines) : ret' > i
          /\ HasLine(lines', ret')
          /\ \A j, k \in 1..Len(lines') :
                 lines'[j].id = lines'[k].id => j = k]_vars

\* an add_line that came after the removal of an earlier line
C1_Witness ==
    /\ event = "add_line"
    /\ \E i \in issued : i < ret /\ ~HasLine(lines, i)
    /\ HasLine(lines, ret)

\* C2: remove_line on a live id returns True, takes out exactly that entry
\* and leaves every other line's data and settings and the counter alone;
\* on an id that is not live it returns False and changes nothing.
C2_RemoveLine ==
    [][\A i \in Ids : RemoveLine(i) =>
          IF HasLine(lines, i)
          THEN /\ ret' = TRUE
               /\ ~HasLine(lines', i)
               /\ LiveIds(lines') = LiveIds(lines) \ {i}
               /\ Len(lines') = Len(lines) - 1
               /\ \A j \in LiveIds(lines) \ {i} :
                      /\ HasLine(lines', j)
                      /\ LineAt(lines', j).data = LineAt(lines, j).data
                      /\ SettingsOf(lines', heap', j) = SettingsOf(lines, heap, j)
               /\ current_id' = current_id
          ELSE /\ ret' = FALSE
               /\ lines' = lines
               /\ heap' = heap
               /\ current_id' = current_id]_vars

\* a removal of a live line that left another line in the registry
C2_Witness ==
    /\ event = "remove_line"
    /\ ret = TRUE
    /\ Len(lines) >= 1
    /\ Cardinality(issued) > Len(lines)

\* C3: update_line_settings on a live id overwrites the listed fields of
\* that line only; its other fields and its data, every other line and the
\* default settings keep their values; on an id that is not live it
\* returns False and changes nothing.
C3_UpdateTouchesOnlyListedFields ==
    [][\A i \in Ids, p \in Partials : UpdateLineSettings(i, p) =>
          IF HasLine(lines, i)
          THEN /\ ret' = TRUE
               /\ \A k \in SettingsKeys :
                      SettingsOf(lines', heap', i)[k] =
                          IF k \in DOMAIN p THEN p[k]
                          ELSE SettingsOf(lines, heap, i)[k]
               /\ LiveIds(lines') = LiveIds(lines)
               /\ \A j \in LiveIds(lines) :
                      LineAt(lines', j).data = LineAt(lines, j).data
               /\ \A j \in LiveIds(lines) \ {i} :
                      SettingsOf(lines', heap', j) = SettingsOf(lines, heap, j)
               /\ heap'[DefaultAddr] = heap[DefaultAddr]
          ELSE /\ ret' = FALSE
               /\ lines' = lines
               /\ heap' = heap]_vars

\* C7: a line added with settings omitted gets width 2, blue, dotted,
\* marker size 0, marker colour red and a label that names its own id.
C7_DefaultLabelNamesOwnId ==
    [][\A d \in CallerData : AddLine(d[1], d[2], NoSettings) =>
          LET st == SettingsOf(lines', heap', ret')
          IN /\ st.line_width = 2
             /\ st.line_color = "blue"
             /\ st.line_style = ":"
             /\ st.marker_size = 0
             /\ st.marker_color = "red"
             /\ IntAfterColon(st.label) = ret']_vars

\* ------------------------------------------------------------------------
\* Properties of the table reader (ReaderSpec)
\* ------------------------------------------------------------------------
Whitespace == {" ", "\t", "\n"}

IsComment(line) == line[1] = "#"

IsBlank(line) == lstrip(line, Whitespace) = <<>>

FirstAlpha(s) ==
    IF \E i \in 1..Len(s) : isalpha(s[i])
    THEN CHOOSE i \in 1..Len(s) :
             isalpha(s[i]) /\ \A j \in 1..(i - 1) : ~isalpha(s[j])
    ELSE Len(s) + 1

\* the blank-separated tokens of s
RECURSIVE Tokens(_)
Tokens(s) ==
    LET t == lstrip(s, BlankChars)
    IN IF t = <<>> THEN <<>>
       ELSE LET n == IF \E i \in 1..Len(t) : t[i] \in BlankChars
                     THEN (CHOOSE i \in 1..Len(t) :
                              /\ t[i] \in BlankChars
                              /\ \A j \in 1..(i - 1) : t[j] \notin BlankChars) - 1
                     ELSE Len(t)
            IN <<SubSeq(t, 1, n)>> \o Tokens(SubSeq(t, n + 1, Len(t)))

NumericPart(line) ==
    LET c == rstrip(line, {"\n"}) IN SubSeq(c, 1, FirstAlpha(c) - 1)

\* numeric tokens separated by blanks, then possibly a label
WellFormed(line) ==
    /\ \A i \in 1..Len(NumericPart(line)) :
           NumericPart(line)[i] \in NumericChars \cup BlankChars
    /\ \A k \in 1..Len(Tokens(NumericPart(line))) :
           IsFloat(Tokens(NumericPart(line))[k])

\* every numeric token as a number, then the trimmed label if there is one
ExpectedRow(line) ==
    LET c == rstrip(line, {"\n"})
        toks == Tokens(NumericPart(line))
    IN [k \in 1..Len(toks) |-> float(toks[k])]
       \o (IF FirstAlpha(c) <= Len(c)
           THEN <<StrCell(strip(SubSeq(c, FirstAlpha(c), Len(c)), Whitespace))>>
           ELSE <<>>)

\* C5: the row of every line that is not skipped and is made of numeric
\* tokens and an optional label holds every numeric token in order as a
\* number, then the trimmed label.
C5_RowHoldsEveryToken ==
    pc = "done" =>
        LET ls == SelectSeq(readlines(file), LAMBDA l : ~SkipLine(l))
        IN (\A k \in 1..Len(ls) : WellFormed(ls[k])) =>
              /\ ~raised
              /\ Len(rows) = Len(ls)
              /\ \A k \in 1..Len(ls) : rows[k] = ExpectedRow(ls[k])

\* C6: comment lines and blank lines give no row, so there are as many
\* rows as lines that are neither.
C6_CommentAndBlankLinesSkipped ==
    (pc = "done" /\ ~raised) =>
        LET ls == readlines(file)
        IN Len(rows) =
               Cardinality({k \in 1..Len(ls) :
                               ~IsComment(ls[k]) /\ ~IsBlank(ls[k])})

\* ------------------------------------------------------------------------
\* Properties of the application (Spec)
\* ------------------------------------------------------------------------
\* the background on display: the image drawn last, if any
Shown(ax) == IF ax.images = <<>> THEN "none" ELSE ax.images[Len(ax.images)]

\* C4: loading a map from a path that cannot be read reports the error and
\* leaves the background that was on display, also over later redraws.
C4_FailedMapKeepsBackground ==
    [][/\ \A p \in ImagePaths \ ReadableImages :
              LoadMapImage(p) =>
                  messagebox' # <<>> /\ Shown(axes') = Shown(axes)
       /\ UpdatePlot => Shown(axes') = Shown(axes)]_vars

\* the load as the caller sees it fail: the file cannot be opened,
\* readTxtTable raises, or a row has fewer than two cells
LoadFails(f) ==
    \/ ~f.exists
    \/ ~readTxtTable(f.text).ok
    \/ \E k \in 1..Len(readTxtTable(f.text).rows) :
           Len(readTxtTable(f.text).rows[k]) < 2

\* C8: a load that fails while the file is read or parsed is reported and
\* leaves the registry, the id counter, the active ids and the selected
\* line as they were.
C8_FailedLoadChangesNothing ==
    [][\A f \in DataFiles : (LoadLineFromFile(f) /\ LoadFails(f)) =>
          /\ messagebox' = <<"load_line_from_file:260">>
          /\ lines' = lines
          /\ heap' = heap
          /\ current_id' = current_id
          /\ active_line_ids' = active_line_ids
          /\ current_line_id' = current_line_id]_vars

\* a failed load with a line already in the registry
C8_Witness ==
    /\ event = "load_line_from_file"
    /\ messagebox = <<"load_line_from_file:260">>
    /\ Len(lines) >= 1
    /\ current_line_id # 0

C10_LegendShowsStoredLabel ==
    [][\A v \in WidgetChoices("line_label") :
          (OnSettingsChange("line_label", v) /\ current_line_id # 0) =>
              \A k \in 1..Len(lines') :
                  lines'[k].id = current_line_id => axes'.legend[k] = v]_vars

====
